---------------------------- MODULE Spec2Model ----------------------------
(***************************************************************************)
(* Image to JSON converter: the canvas service (pixel sampler, median-cut  *)
(* quantizer, palette summarizer, statistics engine), the Gemini service   *)
(* and the App component's handleProcess / handleImageSelect handlers.     *)
(*                                                                         *)
(* Numbers.  A JavaScript number that the code rounds to two decimals      *)
(* (toFixed(2)) is held as an integer count of hundredths; a channel value *)
(* is held as an integer.  NaN, the result of 0/0, is held as a value      *)
(* outside the range of every finite quantity the code produces (all of    *)
(* them are >= 0).  The brightness and channel averages of the statistics  *)
(* engine are computed in IEEE-754 double arithmetic (53-bit significand,  *)
(* round to nearest even), because toFixed(2) reads the double and not the *)
(* real number it stands for.  The palette percentages, the aspect ratio   *)
(* and the contrast are quotients of small integers and computed exactly.  *)
(***************************************************************************)
EXTENDS Integers, Sequences, FiniteSets, TLC

\* ------------------------------------------------------------------ bounds

\* Largest number of pixels the sampler visits in a buffer of the pixel harness.
MaxSamples == 3
\* Largest number of processing requests (clicks on Process) in a behaviour.
MaxRequests == 2
\* Largest number of pixels of a one-color buffer of the pixel harness.
MaxUniform == 3

\* ----------------------------------------------------------- program constants

\* i += 40 over the flat RGBA array (canvasService, extractColorPalette).
SampleStride == 40
\* i += 4 over the flat RGBA array (calculateImageStats).
PixelStride == 4
\* if (a < 128) continue;
AlphaThreshold == 128
\* numColors: number = 8
NumColors == 8
\* getColorDistance(pixel, color) < 50
DistanceThreshold == 50

\* 0/0 in JavaScript.
NaN == -1

IsNaN(x) == x = NaN

\* ------------------------------------------------------------ number helpers

\* a / b on non-negative numbers, rounded half up to an integer
\* (Math.round, and toFixed on a value already scaled to the kept decimals).
\* A zero divisor only ever meets a zero dividend here, and 0/0 is NaN.
RoundDiv(a, b) == IF b = 0 THEN NaN ELSE (2 * a + b) \div (2 * b)

\* Math.round(sum / length)
MathRoundDiv(sum, length) == RoundDiv(sum, length)

RECURSIVE SumSeq(_)
SumSeq(s) == IF s = <<>> THEN 0 ELSE Head(s) + SumSeq(Tail(s))

Max2(a, b) == IF a >= b THEN a ELSE b
Min2(a, b) == IF a <= b THEN a ELSE b

RECURSIVE MaxSeq(_)
\* Math.max(...values) of a non-empty list
MaxSeq(s) == IF Len(s) = 1 THEN s[1] ELSE Max2(s[1], MaxSeq(Tail(s)))

RECURSIVE MinSeq(_)
\* Math.min(...values) of a non-empty list
MinSeq(s) == IF Len(s) = 1 THEN s[1] ELSE Min2(s[1], MinSeq(Tail(s)))

\* Array.prototype.indexOf: first index (1-based here) holding v
IndexOf(s, v) == CHOOSE i \in 1..Len(s) : s[i] = v /\ \A j \in 1..(i - 1) : s[j] # v

\* ------------------------------------------------------- double arithmetic
\* A JavaScript number whose rounding error can decide a result is held as a
\* double: [m |-> mantissa, e |-> exponent], the value m * 2^e, m a natural
\* number of at most 53 bits held as a sequence of limbs, least significant
\* first, without leading zero limbs (zero is <<>>).  Every operation computes
\* the exact result and rounds it to 53 bits, ties to even, as IEEE 754 does.

\* the limbs are digits in base 2^15
LimbBase == 32768
LimbBits == 15
\* bits of a double's mantissa
MantissaBits == 53

RECURSIVE Pow2(_)
Pow2(n) == IF n = 0 THEN 1 ELSE 2 * Pow2(n - 1)

RECURSIVE BnNorm(_)
\* `a` without its leading zero limbs
BnNorm(a) ==
    IF a = <<>> THEN a
    ELSE IF a[Len(a)] = 0 THEN BnNorm(SubSeq(a, 1, Len(a) - 1))
    ELSE a

RECURSIVE BnMulAdd(_, _, _)
\* a * k + c, for k and c below LimbBase
BnMulAdd(a, k, c) ==
    IF a = <<>> THEN (IF c = 0 THEN <<>> ELSE <<c>>)
    ELSE LET t == Head(a) * k + c
         IN  <<t % LimbBase>> \o BnMulAdd(Tail(a), k, t \div LimbBase)

BnMulSmall(a, k) == BnNorm(BnMulAdd(a, k, 0))

RECURSIVE BnAddCarry(_, _, _)
BnAddCarry(a, b, c) ==
    IF a = <<>> /\ b = <<>> THEN (IF c = 0 THEN <<>> ELSE <<c>>)
    ELSE LET x == IF a = <<>> THEN 0 ELSE Head(a)
             y == IF b = <<>> THEN 0 ELSE Head(b)
             t == x + y + c
         IN  <<t % LimbBase>>
               \o BnAddCarry(IF a = <<>> THEN a ELSE Tail(a),
                             IF b = <<>> THEN b ELSE Tail(b), t \div LimbBase)

BnAdd(a, b) == BnNorm(BnAddCarry(a, b, 0))

RECURSIVE BnDivStep(_, _)
\* [q, r] with a = q * k + r and 0 <= r < k, for 0 < k <= LimbBase; q keeps
\* the length of a
BnDivStep(a, k) ==
    IF a = <<>> THEN [q |-> <<>>, r |-> 0]
    ELSE LET hi == BnDivStep(Tail(a), k)
             t  == hi.r * LimbBase + Head(a)
         IN  [q |-> <<t \div k>> \o hi.q, r |-> t % k]

BnDivMod(a, k) == LET d == BnDivStep(a, k) IN [q |-> BnNorm(d.q), r |-> d.r]

\* the number of bits of n >= 0
RECURSIVE IntBitLen(_)
IntBitLen(n) == IF n = 0 THEN 0 ELSE 1 + IntBitLen(n \div 2)

BnBitLen(a) ==
    IF a = <<>> THEN 0 ELSE LimbBits * (Len(a) - 1) + IntBitLen(a[Len(a)])

RECURSIVE BnShl(_, _)
\* a * 2^n
BnShl(a, n) ==
    IF a = <<>> \/ n = 0 THEN a
    ELSE IF n >= LimbBits THEN <<0>> \o BnShl(a, n - LimbBits)
    ELSE BnMulSmall(a, Pow2(n))

RECURSIVE BnShr(_, _)
\* [q, sticky]: q = floor(a / 2^n), sticky iff a bit was shifted out
BnShr(a, n) ==
    IF a = <<>> \/ n = 0 THEN [q |-> a, sticky |-> FALSE]
    ELSE IF n >= LimbBits
         THEN LET rest == BnShr(Tail(a), n - LimbBits)
              IN  [q |-> rest.q, sticky |-> rest.sticky \/ Head(a) # 0]
    ELSE LET d == BnDivMod(a, Pow2(n)) IN [q |-> d.q, sticky |-> d.r # 0]

BnIsOdd(a) == a # <<>> /\ a[1] % 2 = 1

\* the value of a natural number below 2^30
BnToInt(a) ==
    IF a = <<>> THEN 0
    ELSE IF Len(a) = 1 THEN a[1]
    ELSE a[1] + LimbBase * a[2]

\* the natural number n < 2^30
BnFromInt(n) == BnNorm(<<n % LimbBase, n \div LimbBase>>)

RECURSIVE BnFromHex(_)
\* the natural number written with the hexadecimal digits `digits`
BnFromHex(digits) ==
    IF digits = <<>> THEN <<>>
    ELSE BnMulAdd(BnFromHex(SubSeq(digits, 1, Len(digits) - 1)), 16,
                  digits[Len(digits)])

\* The double nearest to m * 2^e (+ a fraction of 2^e when `sticky`): round to
\* nearest, ties to even.
DblRound(m, e, sticky) ==
    LET drop == BnBitLen(m) - MantissaBits
    IN  IF drop <= 0 THEN [m |-> m, e |-> e]
        ELSE LET s    == BnShr(m, drop - 1)
                 half == BnIsOdd(s.q)
                 q    == BnShr(s.q, 1).q
                 up   == half /\ (s.sticky \/ sticky \/ BnIsOdd(q))
             IN  [m |-> IF up THEN BnAdd(q, <<1>>) ELSE q, e |-> e + drop]

DblZero == [m |-> <<>>, e |-> 0]

\* the double of an integer 0 <= n < 2^30
DblFromInt(n) == [m |-> BnFromInt(n), e |-> 0]

\* x * k in double arithmetic, k an integer 0 <= k < LimbBase
DblMulInt(x, k) ==
    IF x.m = <<>> \/ k = 0 THEN DblZero
    ELSE DblRound(BnMulSmall(x.m, k), x.e, FALSE)

\* x + y in double arithmetic
DblAdd(x, y) ==
    IF x.m = <<>> THEN y
    ELSE IF y.m = <<>> THEN x
    ELSE LET e == Min2(x.e, y.e)
         IN  DblRound(BnAdd(BnShl(x.m, x.e - e), BnShl(y.m, y.e - e)), e, FALSE)

\* bits the dividend is extended by, so that the quotient keeps more than
\* MantissaBits + 1 bits
DivGuardBits == 75

\* x / n in double arithmetic, n an integer 0 < n < LimbBase
DblDivInt(x, n) ==
    IF x.m = <<>> THEN DblZero
    ELSE LET d == BnDivMod(BnShl(x.m, DivGuardBits), n)
         IN  DblRound(d.q, x.e - DivGuardBits, d.r # 0)

\* Number.prototype.toFixed(2) of a double x, 0 <= x < 2^23, in hundredths:
\* the integer n for which n / 100 - x is closest to zero, the larger n if
\* there are two; that is floor((200 x + 1) / 2).
ToFixed2(x) ==
    IF x.e >= 0 THEN 100 * BnToInt(BnShl(x.m, x.e))
    ELSE LET num == BnAdd(BnMulSmall(x.m, 200), BnShl(<<1>>, 0 - x.e))
         IN  BnToInt(BnShr(num, 1 - x.e).q)

\* ---------------------------------------------------------------- sorting

\* Array.prototype.sort with a comparator that subtracts two numeric keys:
\* a.k - b.k (ascending) or b.k - a.k (descending).  Items are records
\* [k |-> key, desc |-> direction, v |-> element].  The sort is stable: an
\* element is inserted after every element it does not strictly precede.  A
\* comparator result of NaN counts as 0 (neither first).
ComesBefore(x, y) ==
    /\ ~IsNaN(x.k) /\ ~IsNaN(y.k)
    /\ IF x.desc THEN y.k - x.k < 0 ELSE x.k - y.k < 0

RECURSIVE InsertSorted(_, _)
InsertSorted(s, x) ==
    IF s = <<>> THEN <<x>>
    ELSE IF ComesBefore(x, Head(s)) THEN <<x>> \o s
    ELSE <<Head(s)>> \o InsertSorted(Tail(s), x)

RECURSIVE StableSort(_)
StableSort(s) ==
    IF s = <<>> THEN <<>>
    ELSE InsertSorted(StableSort(SubSeq(s, 1, Len(s) - 1)), s[Len(s)])

RECURSIVE ItemValues(_)
\* the elements of a sequence of items
ItemValues(items) ==
    IF items = <<>> THEN <<>> ELSE <<Head(items).v>> \o ItemValues(Tail(items))

\* The elements of `s` sorted on keys[i], the key of s[i].
SortOnKeys(s, keys, descending) ==
    ItemValues(StableSort([i \in 1..Len(s) |->
                             [k |-> keys[i], desc |-> descending, v |-> s[i]]]))

\* ------------------------------------------------------------ pixel sampler

\* The loop of extractColorPalette over the flat RGBA array `data`, from
\* offset i (0-based, as in the code): every SampleStride-th channel starts a
\* visited pixel, kept when its alpha is at least AlphaThreshold.
RECURSIVE SampleFromAlphaAbove(_, _)
\* The loop with the test written `a <= 128`.
SampleFromAlphaAbove(data, i) ==
    IF i >= Len(data) THEN <<>>
    ELSE IF data[i + 4] <= AlphaThreshold
         THEN SampleFromAlphaAbove(data, i + SampleStride)
         ELSE <<<<data[i + 1], data[i + 2], data[i + 3]>>>>
                 \o SampleFromAlphaAbove(data, i + SampleStride)

RECURSIVE SampleFrom(_, _)
SampleFrom(data, i) ==
    IF i >= Len(data) THEN <<>>
    ELSE LET r == data[i + 1]
             g == data[i + 2]
             b == data[i + 3]
             a == data[i + 4]
         IN  IF a < AlphaThreshold
             THEN SampleFrom(data, i + SampleStride)
             ELSE <<<<r, g, b>>>> \o SampleFrom(data, i + SampleStride)

sampledColors(data) == SampleFrom(data, 0)

\* ------------------------------------------------------------- median cut

\* Return average color of the bucket
BucketAverage(colors) ==
    LET n == Len(colors)
    IN  << MathRoundDiv(SumSeq([i \in 1..n |-> colors[i][1]]), n),
           MathRoundDiv(SumSeq([i \in 1..n |-> colors[i][2]]), n),
           MathRoundDiv(SumSeq([i \in 1..n |-> colors[i][3]]), n) >>

\* Find the channel with the greatest range: ranges[channel] = max - min
ChannelRanges(colors) ==
    [channel \in 1..3 |->
        LET values == [i \in 1..Len(colors) |-> colors[i][channel]]
        IN  MaxSeq(values) - MinSeq(values)]

\* The highest channel index winning a tie between the ranges.
MaxChannelLastIndex(colors) ==
    LET ranges == ChannelRanges(colors)
    IN  CHOOSE ch \in 1..3 :
            /\ ranges[ch] = MaxSeq(ranges)
            /\ \A j \in (ch + 1)..3 : ranges[j] # MaxSeq(ranges)

\* ranges.indexOf(Math.max(...ranges))
MaxChannel(colors) ==
    LET ranges == ChannelRanges(colors) IN IndexOf(ranges, MaxSeq(ranges))

\* colors.sort((a, b) => a[maxChannel] - b[maxChannel])
SortByChannel(colors, ch) ==
    SortOnKeys(colors, [i \in 1..Len(colors) |-> colors[i][ch]], FALSE)

\* The split with the right half taken from one index too early:
\* colors.slice(mid - 1).
SplitOverlapping(colors) ==
    LET maxChannel == MaxChannel(colors)
        sorted     == SortByChannel(colors, maxChannel)
        mid        == Len(sorted) \div 2
    IN  [maxChannel |-> maxChannel,
         left  |-> SubSeq(sorted, 1, mid),
         right |-> SubSeq(sorted, mid, Len(sorted))]

\* One non-terminal step: the axis chosen, the bucket sorted on it in place,
\* and the two slices around the midpoint.
Split(colors) ==
    LET maxChannel == MaxChannel(colors)
        sorted     == SortByChannel(colors, maxChannel)
        mid        == Len(sorted) \div 2
    IN  [maxChannel |-> maxChannel,
         left  |-> SubSeq(sorted, 1, mid),
         right |-> SubSeq(sorted, mid + 1, Len(sorted))]

RECURSIVE medianCut(_, _)
medianCut(colors, depth) ==
    IF depth = 0 \/ Len(colors) <= 1
    THEN <<BucketAverage(colors)>>
    ELSE LET halves == Split(colors)
         IN  medianCut(halves.left, depth - 1)
                \o medianCut(halves.right, depth - 1)

RECURSIVE LeafBuckets(_, _)
\* The buckets the recursion of medianCut(colors, depth) ends in, in the
\* order of the colors it returns: one bucket for each returned average.
LeafBuckets(colors, depth) ==
    IF depth = 0 \/ Len(colors) <= 1
    THEN <<colors>>
    ELSE LET halves == Split(colors)
         IN  LeafBuckets(halves.left, depth - 1)
                \o LeafBuckets(halves.right, depth - 1)

\* -------------------------------------------------------- palette summarizer

Sq(x) == x * x

\* getColorDistance(color1, color2) < 50.  The distance is a square root of a
\* sum of squares; it is below the threshold exactly when the sum is below the
\* threshold's square, and never when a channel of color2 is NaN.
CloserThanThreshold(color1, color2) ==
    /\ ~IsNaN(color2[1]) /\ ~IsNaN(color2[2]) /\ ~IsNaN(color2[3])
    /\ Sq(color1[1] - color2[1]) + Sq(color1[2] - color2[2])
         + Sq(color1[3] - color2[3]) < Sq(DistanceThreshold)

\* colorCounts[index]: the samples within the threshold of the palette color
ColorCount(samples, color) ==
    Cardinality({i \in 1..Len(samples) : CloserThanThreshold(samples[i], color)})

\* parseFloat(((count / totalPixels) * 100).toFixed(2)), in hundredths
Percentage(count, totalPixels) == RoundDiv(count * 10000, totalPixels)

HexDigits == <<"0", "1", "2", "3", "4", "5", "6", "7",
               "8", "9", "a", "b", "c", "d", "e", "f">>

\* x.toString(16), left-padded with '0' to two digits when it has one digit
HexByte(x) ==
    IF IsNaN(x) THEN <<"NaN">>
    ELSE IF x < 16 THEN <<"0", HexDigits[x + 1]>>
    ELSE <<HexDigits[(x \div 16) + 1], HexDigits[(x % 16) + 1]>>

rgbToHex(r, g, b) == <<"#">> \o HexByte(r) \o HexByte(g) \o HexByte(b)

\* The comparator written the other way round: a.percentage - b.percentage.
SortByPercentageAscending(entries) ==
    SortOnKeys(entries, [i \in 1..Len(entries) |-> entries[i].percentage], FALSE)

\* dominantColors.sort((a, b) => b.percentage - a.percentage)
SortByPercentage(entries) ==
    SortOnKeys(entries, [i \in 1..Len(entries) |-> entries[i].percentage], TRUE)

\* dominantColors before it is sorted: one entry per representative color.
PaletteEntries(samples, numColors) ==
    LET palette     == medianCut(samples, numColors)
        totalPixels == Len(samples)
    IN  [index \in 1..Len(palette) |->
           LET color == palette[index]
           IN  [hex |-> rgbToHex(color[1], color[2], color[3]),
                rgb |-> [r |-> color[1], g |-> color[2], b |-> color[3]],
                percentage |->
                   Percentage(ColorCount(samples, color), totalPixels)]]

\* The palette, sorted.
PaletteOf(samples, numColors) ==
    SortByPercentage(PaletteEntries(samples, numColors))

extractColorPalette(data) ==
    [dominantColors |-> PaletteOf(sampledColors(data), NumColors)]

\* ---------------------------------------------------------- statistics engine

\* 0.299 * r + 0.587 * g + 0.114 * b as a real number, in thousandths
Brightness(r, g, b) == 299 * r + 587 * g + 114 * b

\* The literals 0.299, 0.587 and 0.114: the doubles nearest to them,
\* 0x1.322d0e5604189p-2, 0x1.2c8b439581062p-1 and 0x1.d2f1a9fbe76c9p-4.
Weight299 ==
    [m |-> BnFromHex(<<1, 3, 2, 2, 13, 0, 14, 5, 6, 0, 4, 1, 8, 9>>), e |-> 0 - 54]
Weight587 ==
    [m |-> BnFromHex(<<1, 2, 12, 8, 11, 4, 3, 9, 5, 8, 1, 0, 6, 2>>), e |-> 0 - 53]
Weight114 ==
    [m |-> BnFromHex(<<1, 13, 2, 15, 1, 10, 9, 15, 11, 14, 7, 6, 12, 9>>), e |-> 0 - 56]

\* const brightness = 0.299 * r + 0.587 * g + 0.114 * b, as the double the
\* code computes: each product and each sum is rounded.
BrightnessDouble(r, g, b) ==
    DblAdd(DblAdd(DblMulInt(Weight299, r), DblMulInt(Weight587, g)),
           DblMulInt(Weight114, b))

RECURSIVE DblSumFrom(_, _)
\* total += x for each x of `values` in order, from the total `acc`
DblSumFrom(values, acc) ==
    IF values = <<>> THEN acc
    ELSE DblSumFrom(Tail(values), DblAdd(acc, Head(values)))

\* parseFloat((total / pixelCount).toFixed(2)) in hundredths, NaN for 0 / 0
AverageToFixed2(total, pixelCount) ==
    IF pixelCount = 0 THEN NaN ELSE ToFixed2(DblDivInt(total, pixelCount))

\* The pixels the two loops of calculateImageStats keep: those of the flat
\* RGBA array `data`, from offset i on, whose alpha is at least AlphaThreshold.
RECURSIVE IncludedFrom(_, _)
IncludedFrom(data, i) ==
    IF i >= Len(data) THEN <<>>
    ELSE LET r == data[i + 1]
             g == data[i + 2]
             b == data[i + 3]
             a == data[i + 4]
         IN  IF a < AlphaThreshold
             THEN IncludedFrom(data, i + PixelStride)
             ELSE <<<<r, g, b>>>> \o IncludedFrom(data, i + PixelStride)

\* <<q, r>> with x * y = q * d + r and 0 <= r < d, for x, y >= 0 and d > 0,
\* computed without forming the product x * y.
RECURSIVE MulDivMod(_, _, _)
MulDivMod(x, y, d) ==
    IF y = 0 THEN <<0, 0>>
    ELSE LET h  == MulDivMod(x, y \div 2, d)
             q0 == 2 * h[1] + (IF y % 2 = 1 THEN x \div d ELSE 0)
             r0 == 2 * h[2] + (IF y % 2 = 1 THEN x % d ELSE 0)
         IN  <<q0 + (r0 \div d), r0 % d>>

Abs(x) == IF x < 0 THEN 0 - x ELSE x

RECURSIVE ISqrt(_)
\* the integer part of the square root of n >= 0
ISqrt(n) ==
    IF n < 2 THEN n
    ELSE LET s == 2 * ISqrt(n \div 4)
         IN  IF (s + 1) * (s + 1) <= n THEN s + 1 ELSE s

\* parseFloat(Math.sqrt(varianceSum / pixelCount).toFixed(2)), in hundredths.
\* With brightness in thousandths, T their sum over the n kept pixels and
\* d[i] = n * brightness[i] - T, the variance is (SUM d[i]^2) / n^3 thousandths
\* squared, and the contrast in hundredths is sqrt((SUM d[i]^2) / (100 n^3)),
\* rounded to the nearest integer c: (2c - 1)^2 <= 4 SUM d[i]^2 / (100 n^3)
\* < (2c + 1)^2.
Contrast(bright) ==
    LET n == Len(bright)
        T == SumSeq(bright)
        d == 100 * n * n * n
        terms == [i \in 1..n |-> MulDivMod(Abs(n * bright[i] - T),
                                           Abs(n * bright[i] - T), d)]
        quot == SumSeq([i \in 1..n |-> 4 * terms[i][1]])
        rem  == SumSeq([i \in 1..n |-> 4 * terms[i][2]])
    IN  IF n = 0 THEN NaN
        ELSE (ISqrt(quot + (rem \div d)) + 1) \div 2

calculateImageStats(data) ==
    LET kept   == IncludedFrom(data, 0)
        pixelCount == Len(kept)
        bright == [i \in 1..pixelCount |->
                     Brightness(kept[i][1], kept[i][2], kept[i][3])]
        totalBrightness ==
            DblSumFrom([i \in 1..pixelCount |->
                          BrightnessDouble(kept[i][1], kept[i][2], kept[i][3])],
                       DblZero)
        totalRed   == DblFromInt(SumSeq([i \in 1..pixelCount |-> kept[i][1]]))
        totalGreen == DblFromInt(SumSeq([i \in 1..pixelCount |-> kept[i][2]]))
        totalBlue  == DblFromInt(SumSeq([i \in 1..pixelCount |-> kept[i][3]]))
    IN  [averageBrightness |-> AverageToFixed2(totalBrightness, pixelCount),
         averageContrast   |-> Contrast(bright),
         colorDistribution |->
            [red   |-> AverageToFixed2(totalRed, pixelCount),
             green |-> AverageToFixed2(totalGreen, pixelCount),
             blue  |-> AverageToFixed2(totalBlue, pixelCount)]]

\* ------------------------------------------------------------ pixel buffers

\* RGBA pixels the buffers are built from: black, a red within the distance
\* threshold of black, a blue at exactly the threshold from black with alpha
\* exactly at the visibility threshold, white, and a red just below the
\* visibility threshold.
PixelValues ==
    { <<0, 0, 0, 255>>, <<30, 0, 0, 255>>, <<0, 0, 50, 128>>,
      <<255, 255, 255, 255>>, <<255, 0, 0, 127>> }

\* Pixels that fill the positions the sampler does not visit: an opaque green
\* and a fully transparent grey.
FillValues == { <<0, 255, 0, 255>>, <<90, 90, 90, 0>> }

RECURSIVE Flatten(_)
\* the flat RGBA channel array of a sequence of pixels
Flatten(px) == IF px = <<>> THEN <<>> ELSE Head(px) \o Flatten(Tail(px))

\* pixels per sampler step
PixelsPerSample == SampleStride \div PixelStride

\* The buffer whose visited pixels are `vis`, every other pixel being `fill`;
\* `full` tells whether the last visited pixel is followed by unvisited ones.
BufferOf(vis, fill, full) ==
    LET k == Len(vis)
        P == IF k = 0 THEN 0
             ELSE IF full THEN PixelsPerSample * k
             ELSE PixelsPerSample * (k - 1) + 1
    IN  Flatten([j \in 1..P |->
                   IF (j - 1) % PixelsPerSample = 0
                   THEN vis[((j - 1) \div PixelsPerSample) + 1]
                   ELSE fill])

SeqsUpTo(S, n) == UNION { [1..k -> S] : k \in 0..n }

\* Colors of the fully opaque one-color buffers: red, green, a grey.
UniformColors == { <<255, 0, 0>>, <<0, 255, 0>>, <<90, 90, 90>> }

\* The fully opaque buffers of 1..MaxUniform pixels of one color.
UniformBuffers ==
    { Flatten([j \in 1..n |-> c \o <<255>>]) :
        n \in 1..MaxUniform, c \in UniformColors }

Buffers ==
    { BufferOf(vis, fill, full) :
        vis \in SeqsUpTo(PixelValues, MaxSamples), fill \in FillValues,
        full \in BOOLEAN }
    \cup UniformBuffers

\* ------------------------------------------------------------ canvas service

\* A value that may be absent (null, undefined, not yet returned) is held as
\* a sequence: empty when absent, of the one value when present.
None == <<>>
Some(x) == <<x>>

\* The files a user can select.  "photo.png" decodes to an 11 x 1 image with
\* opaque pixels, "clear.png" to a 1 x 1 fully transparent image (no pixel is
\* eligible), "broken.png" does not decode.
Files == {"photo.png", "clear.png", "broken.png"}

Decodable(file) == file # "broken.png"

\* What the browser decodes the file to: img.width, img.height and the
\* ImageData of the canvas the image is drawn on.
Images ==
    ("photo.png" :>
        [width |-> 11, height |-> 1,
         data |-> BufferOf(<< <<0, 0, 0, 255>>, <<255, 255, 255, 255>> >>,
                           <<0, 255, 0, 255>>, FALSE)]) @@
    ("clear.png" :> [width |-> 1, height |-> 1, data |-> <<90, 90, 90, 0>>])

ImageOf(file) == Images[file]

\* file.size and file.type
FileSize(file) == IF file = "photo.png" THEN 44 ELSE 4
FileType(file) == "image/png"

\* extractMetadata(file, img); aspectRatio is (width / height).toFixed(2), in
\* hundredths, followed by ":1"
extractMetadata(file, img) ==
    [fileName    |-> file,
     fileSize    |-> FileSize(file),
     fileType    |-> FileType(file),
     dimensions  |-> [width |-> img.width, height |-> img.height],
     aspectRatio |-> <<RoundDiv(100 * img.width, img.height), ":1">>]

\* canvas.toDataURL('image/png') of the canvas the file was drawn on
convertToBase64(file) == <<"data:image/png;base64,", file>>

\* The statistics block guarded by the flag of the palette block.
CanvasKeysStatsWithColors(co) ==
    {k \in {"metadata", "colors", "base64", "statistics"} :
        \/ k = "metadata" /\ co.extractMetadata
        \/ k = "colors" /\ co.extractColors
        \/ k = "base64" /\ co.convertBase64
        \/ k = "statistics" /\ co.extractColors}

\* The body of img.onload in processImageWithCanvas: the object it resolves
\* with holds a key for each requested extraction and no other key.
CanvasKeys(co) ==
    {k \in {"metadata", "colors", "base64", "statistics"} :
        \/ k = "metadata" /\ co.extractMetadata
        \/ k = "colors" /\ co.extractColors
        \/ k = "base64" /\ co.convertBase64
        \/ k = "statistics" /\ co.calculateStats}

\* extractColorPalette(canvas, ctx) and calculateImageStats(canvas, ctx) on the
\* canvas each decodable file is drawn on.
ColorsOfFile ==
    ("photo.png" :> extractColorPalette(ImageOf("photo.png").data)) @@
    ("clear.png" :> extractColorPalette(ImageOf("clear.png").data))
StatisticsOfFile ==
    ("photo.png" :> calculateImageStats(ImageOf("photo.png").data)) @@
    ("clear.png" :> calculateImageStats(ImageOf("clear.png").data))

processImageWithCanvas(file, co) ==
    LET img == ImageOf(file)
    IN  [k \in CanvasKeys(co) |->
           CASE k = "metadata"   -> extractMetadata(file, img)
             [] k = "colors"     -> ColorsOfFile[file]
             [] k = "base64"     -> convertToBase64(file)
             [] k = "statistics" -> StatisticsOfFile[file]]

\* ------------------------------------------------------------ gemini service

\* The capability requests of analyzeImageWithGemini, in the order of its code.
Capabilities == <<"ocr", "objects", "description", "uiElements", "designAnalysis">>

\* The description block guarded by detectObjects alone.
WantedWithoutDesignDescription(c, ao) ==
    CASE c = "ocr"            -> ao.extractOCR
      [] c = "objects"        -> ao.detectObjects
      [] c = "description"    -> ao.detectObjects
      [] c = "uiElements"     -> ao.analyzeUI
      [] c = "designAnalysis" -> ao.analyzeDesign

\* The condition guarding each capability's block.
Wanted(c, ao) ==
    CASE c = "ocr"            -> ao.extractOCR
      [] c = "objects"        -> ao.detectObjects
      [] c = "description"    -> ao.detectObjects \/ ao.analyzeDesign
      [] c = "uiElements"     -> ao.analyzeUI
      [] c = "designAnalysis" -> ao.analyzeDesign

\* Index of the first capability after position i whose block runs, 0 if none.
NextWanted(i, ao) ==
    IF \E j \in (i + 1)..Len(Capabilities) : Wanted(Capabilities[j], ao)
    THEN CHOOSE j \in (i + 1)..Len(Capabilities) :
            /\ Wanted(Capabilities[j], ao)
            /\ \A m \in (i + 1)..(j - 1) : ~Wanted(Capabilities[m], ao)
    ELSE 0

\* A text is a sequence of pieces: a code fence, the word json, a newline, a
\* well-formed JSON text of the shape the prompt asks for ("value"), and
\* words that are not JSON ("prose").
\* (the piece made of three backquotes)
Fence == "fence"

\* Texts the model may answer with.
ResponseTexts ==
    { <<"value">>,
      <<Fence, "json", "\n", "value", "\n", Fence>>,
      <<Fence, "\n", "value", "\n", Fence>>,
      <<"\n", Fence, "json", "\n", "value", "\n", Fence, "\n">>,
      <<"prose">>,
      <<Fence, "json", "\n", "prose", "\n", Fence>>,
      <<"prose", "\n", Fence, "json", "\n", "value", "\n", Fence>>,
      <<>> }

\* text.trim(): leading and trailing white space removed
RECURSIVE Trim(_)
Trim(text) ==
    IF text = <<>> THEN <<>>
    ELSE IF Head(text) = "\n" THEN Trim(Tail(text))
    ELSE IF text[Len(text)] = "\n" THEN Trim(SubSeq(text, 1, Len(text) - 1))
    ELSE text

\* cleaned.startsWith(prefix)
StartsWith(text, prefix) ==
    /\ Len(text) >= Len(prefix)
    /\ SubSeq(text, 1, Len(prefix)) = prefix

\* cleaned.replace(/prefix\n?/g, empty): every occurrence of the prefix, with
\* the newline after it if there is one, removed
RECURSIVE RemoveAll(_, _)
RemoveAll(text, prefix) ==
    IF text = <<>> THEN <<>>
    ELSE IF StartsWith(text, prefix)
         THEN LET rest == SubSeq(text, Len(prefix) + 1, Len(text))
              IN  IF rest # <<>> /\ Head(rest) = "\n"
                  THEN RemoveAll(Tail(rest), prefix)
                  ELSE RemoveAll(rest, prefix)
         ELSE <<Head(text)>> \o RemoveAll(Tail(text), prefix)

\* The text handed to JSON.parse: trimmed, and with the code fences removed
\* when it starts with one.
Cleaned(text) ==
    LET cleaned == Trim(text)
    IN  IF StartsWith(cleaned, <<Fence, "json">>)
        THEN RemoveAll(RemoveAll(cleaned, <<Fence, "json">>), <<Fence>>)
        ELSE IF StartsWith(cleaned, <<Fence>>)
             THEN RemoveAll(cleaned, <<Fence>>)
             ELSE cleaned

\* JSON.parse(cleaned) returns: cleaned is one JSON text, white space around
\* it allowed; otherwise JSON.parse throws a SyntaxError.
JsonParses(cleaned) == Trim(cleaned) = <<"value">>

\* Every fallback being the empty array.
FallbackEmptyArray(c) == <<>>

\* The fallback handed to parseJSONResponse for each capability.
Fallback(c) ==
    IF c = "designAnalysis"
    THEN [colorHarmony |-> "N/A", typography |-> "N/A", layout |-> "N/A"]
    ELSE <<>>

\* JSON.parse of a valid answer to the capability's prompt.
Parsed(c) ==
    CASE c = "ocr"            -> <<[text |-> "Hello", confidence |-> 95]>>
      [] c = "objects"        -> <<[label |-> "person", confidence |-> 98]>>
      [] c = "uiElements"     -> <<[type |-> "button"]>>
      [] c = "designAnalysis" ->
           [colorHarmony |-> "warm", typography |-> "serif", layout |-> "grid"]

\* parseJSONResponse(text, fallback): JSON.parse inside try, fallback in catch
parseJSONResponse(c, text) ==
    IF JsonParses(Cleaned(text)) THEN Parsed(c) ELSE Fallback(c)

\* What a capability's block stores in the result for the answer `text`.
CapabilityValue(c, text) ==
    IF c = "description" THEN <<"description of the image">>
    ELSE parseJSONResponse(c, text)

\* --------------------------------------------------------------------- App

OptionKeys == {"basicInfo", "colors", "base64", "statistics",
               "aiOcr", "aiObjects", "aiUI", "aiDesign"}
AiOptionKeys == {"aiOcr", "aiObjects", "aiUI", "aiDesign"}

\* useState<Options>({...})
InitialOptions ==
    [basicInfo |-> TRUE, colors |-> TRUE, base64 |-> FALSE, statistics |-> FALSE,
     aiOcr |-> FALSE, aiObjects |-> FALSE, aiUI |-> FALSE, aiDesign |-> FALSE]

ApiKeys == {"", "AIza-key"}

Null == "null"

\* const canvasOptions = {...}
canvasOptions(o) ==
    [extractMetadata |-> o.basicInfo, extractColors |-> o.colors,
     convertBase64 |-> o.base64, calculateStats |-> o.statistics]

\* the options object handed to analyzeImageWithGemini
geminiOptions(o) ==
    [extractOCR |-> o.aiOcr, detectObjects |-> o.aiObjects,
     analyzeUI |-> o.aiUI, analyzeDesign |-> o.aiDesign]

hasAiOptions(o) == o.aiOcr \/ o.aiObjects \/ o.aiUI \/ o.aiDesign

\* The condition without its apiKey conjunct.
CallsGeminiWithoutKeyCheck(key, o) == hasAiOptions(o)

\* if (apiKey && hasAiOptions)
CallsGemini(key, o) == key # "" /\ hasAiOptions(o)

\* The error messages handleProcess sets, as <<prefix, rest>>.
ProcessingFailed(message) == Some(<<"Processing failed", ": " \o message>>)
AiAnalysisFailed(message) == Some(<<"AI Analysis failed", ": " \o message>>)
AiAnalysisFailedUnknown == Some(<<"AI Analysis failed", " with unknown error">>)
\* the Error analyzeImageWithGemini's catch rethrows
GeminiFailure(message) == "Failed to analyze image with Gemini: " \o message

\* ------------------------------------------------------------------- state

VARIABLES
    selectedFile, \* App state: the selected file, or Null
    imageUrl,     \* App state: the object URL of the selected file, or Null
    apiKey,       \* App state
    isProcessing, \* App state
    result,       \* App state: None (null) or Some(ImageAnalysisResult)
    error,        \* App state: None (null) or Some(message)
    options,      \* App state
    req,          \* the handleProcess call in flight: its position, the values
                  \* its closure captured, its locals
    sent,         \* the capability requests the latest handleProcess call has
                  \* issued to the AI service, in order
    now,          \* the clock new Date() reads: the number of requests so far
    pixels,       \* pixel harness: ImageData.data handed to the core functions
    colorPalette, \* pixel harness: extractColorPalette's return value, if called
    statistics    \* pixel harness: calculateImageStats' return value, if called

appVars == <<selectedFile, imageUrl, apiKey, isProcessing, result, error,
             options, req, sent, now>>
pixelVars == <<pixels, colorPalette, statistics>>
vars == <<selectedFile, imageUrl, apiKey, isProcessing, result, error,
          options, req, sent, now, pixels, colorPalette, statistics>>

\* No handleProcess call is in flight.
IdleReq ==
    [pc |-> "idle", file |-> Null, options |-> InitialOptions, apiKey |-> "",
     analysisResult |-> <<>>, geminiResult |-> <<>>, pending |-> 0]

AppInit ==
    /\ selectedFile = Null
    /\ imageUrl = Null
    /\ apiKey = ""
    /\ isProcessing = FALSE
    /\ result = None
    /\ error = None
    /\ options = InitialOptions
    /\ req = IdleReq
    /\ sent = <<>>
    /\ now = 0

\* ---------------------------------------------------------------- handlers

\* handleImageSelect(file)
HandleImageSelect(file) ==
    /\ selectedFile' = file
    /\ imageUrl' = "blob:" \o file
    /\ result' = None
    /\ error' = None
    /\ UNCHANGED <<apiKey, isProcessing, options, req, sent, now, pixelVars>>

\* onApiKeyChange(e.target.value)
SetApiKey(key) ==
    /\ key # apiKey
    /\ apiKey' = key
    /\ UNCHANGED <<selectedFile, imageUrl, isProcessing, result, error, options,
                   req, sent, now, pixelVars>>

\* handleOptionChange(key, !options[key]): a click on a checkbox.  The AI
\* checkboxes are disabled without an API key.  Options are edited while no
\* request is in flight and no result is displayed.
HandleOptionChange(key) ==
    /\ key \in AiOptionKeys => apiKey # ""
    /\ req.pc = "idle" /\ result = None
    /\ options' = [options EXCEPT ![key] = ~options[key]]
    /\ UNCHANGED <<selectedFile, imageUrl, apiKey, isProcessing, result, error,
                   req, sent, now, pixelVars>>

\* The end of handleProcess with setIsProcessing(false) left out.
DeliverStillProcessing(analysisResult) ==
    /\ result' = Some(analysisResult)
    /\ isProcessing' = TRUE
    /\ req' = IdleReq

\* The end of handleProcess on its way through setResult(analysisResult) and
\* the finally block.
Deliver(analysisResult) ==
    /\ result' = Some(analysisResult)
    /\ isProcessing' = FALSE
    /\ req' = IdleReq

\* The outer catch also showing an empty result record.
FailProcessingWithEmptyResult(message) ==
    /\ error' = ProcessingFailed(message)
    /\ isProcessing' = FALSE
    /\ req' = IdleReq
    /\ result' = Some([timestamp |-> now + 1, canvas |-> <<>>])

\* The outer catch of handleProcess, then the finally block.
FailProcessing(message) ==
    /\ error' = ProcessingFailed(message)
    /\ isProcessing' = FALSE
    /\ req' = IdleReq
    /\ UNCHANGED result

\* The inner catch missing: the AI failure reaches the outer catch.
FailAiReachesOuterCatch(errorMessage, analysisResult) ==
    /\ error' = errorMessage
    /\ isProcessing' = FALSE
    /\ req' = IdleReq
    /\ UNCHANGED result

\* The inner catch of handleProcess: the error is set, the function goes on to
\* setResult(analysisResult) with no ai key.
FailAi(errorMessage, analysisResult) ==
    /\ error' = errorMessage
    /\ Deliver(analysisResult)

\* handleProcess up to its first await.  processImageWithCanvas rejects at
\* once when the canvas has no 2d context; otherwise the image starts loading.
HandleProcess(ctx) ==
    /\ selectedFile # Null
    /\ ~isProcessing
    /\ now < MaxRequests
    /\ now' = now + 1
    /\ sent' = <<>>
    /\ IF ctx
       THEN /\ isProcessing' = TRUE
            /\ error' = None
            /\ req' = [pc |-> "image", file |-> selectedFile, options |-> options,
                       apiKey |-> apiKey,
                       analysisResult |-> [timestamp |-> now + 1, canvas |-> <<>>],
                       geminiResult |-> <<>>, pending |-> 0]
            /\ UNCHANGED result
       ELSE FailProcessing("Could not get canvas context")
    /\ UNCHANGED <<selectedFile, imageUrl, apiKey, options, pixelVars>>

\* img.onload, then handleProcess from the await of processImageWithCanvas to
\* its next await (fileToBase64 inside analyzeImageWithGemini, which throws
\* before it when the key is empty) or to its end.
ImgOnload ==
    /\ req.pc = "image"
    /\ Decodable(req.file)
    /\ LET canvasResult == processImageWithCanvas(req.file, canvasOptions(req.options))
           analysisResult == [req.analysisResult EXCEPT !.canvas = canvasResult]
       IN  IF CallsGemini(req.apiKey, req.options)
           THEN IF req.apiKey = ""
                THEN \* if (!apiKey) throw new Error(...)
                     FailAi(AiAnalysisFailed("Gemini API key is required"),
                            analysisResult)
                ELSE /\ req' = [req EXCEPT !.pc = "reader",
                                           !.analysisResult = analysisResult]
                     /\ UNCHANGED <<result, isProcessing, error>>
           ELSE /\ Deliver(analysisResult)
                /\ UNCHANGED error
    /\ UNCHANGED <<selectedFile, imageUrl, apiKey, options, sent, now, pixelVars>>

\* img.onerror, then the outer catch of handleProcess.
ImgOnerror ==
    /\ req.pc = "image"
    /\ ~Decodable(req.file)
    /\ FailProcessing("Failed to load image")
    /\ UNCHANGED <<selectedFile, imageUrl, apiKey, options, sent, now, pixelVars>>

\* model.generateContent([prompt, image]) for the capability at index i.
SendCapability(i) ==
    /\ sent' = Append(sent, Capabilities[i])
    /\ req' = [req EXCEPT !.pc = "gemini", !.pending = i]

\* reader.onload of fileToBase64, then analyzeImageWithGemini up to the first
\* generateContent call.
ReaderOnload ==
    /\ req.pc = "reader"
    /\ SendCapability(NextWanted(0, geminiOptions(req.options)))
    /\ UNCHANGED <<selectedFile, imageUrl, apiKey, isProcessing, result, error,
                   options, now, pixelVars>>

\* reader.onerror of fileToBase64: the promise rejects with the event, outside
\* the try of analyzeImageWithGemini; handleProcess's inner catch gets it.
ReaderOnerror ==
    /\ req.pc = "reader"
    /\ FailAi(AiAnalysisFailedUnknown, req.analysisResult)
    /\ UNCHANGED <<selectedFile, imageUrl, apiKey, options, sent, now, pixelVars>>

\* generateContent resolves with `text`: the capability's block stores its
\* value; the next wanted capability is requested, or analyzeImageWithGemini
\* returns and handleProcess attaches the result under `ai` and delivers.
GeminiResolves(text) ==
    /\ req.pc = "gemini"
    /\ LET c == Capabilities[req.pending]
           geminiResult == (c :> CapabilityValue(c, text)) @@ req.geminiResult
           next == NextWanted(req.pending, geminiOptions(req.options))
       IN  IF next # 0
           THEN /\ sent' = Append(sent, Capabilities[next])
                /\ req' = [req EXCEPT !.pending = next,
                                      !.geminiResult = geminiResult]
                /\ UNCHANGED <<result, isProcessing>>
           ELSE /\ Deliver(("ai" :> geminiResult) @@ req.analysisResult)
                /\ UNCHANGED sent
    /\ UNCHANGED <<selectedFile, imageUrl, apiKey, error, options, now, pixelVars>>

\* A rejected request skipped, each capability in a try of its own: the next
\* wanted capability is requested all the same.
GeminiRejectsAndGoesOn ==
    /\ req.pc = "gemini"
    /\ LET next == NextWanted(req.pending, geminiOptions(req.options))
       IN  IF next # 0
           THEN /\ sent' = Append(sent, Capabilities[next])
                /\ req' = [req EXCEPT !.pending = next]
                /\ UNCHANGED <<result, isProcessing, error>>
           ELSE /\ FailAi(AiAnalysisFailed(GeminiFailure("fetch failed")),
                          req.analysisResult)
                /\ UNCHANGED sent
    /\ UNCHANGED <<selectedFile, imageUrl, apiKey, options, now, pixelVars>>

\* generateContent rejects (or response.text() throws): the catch of
\* analyzeImageWithGemini rethrows, handleProcess's inner catch sets the error.
GeminiRejects ==
    /\ req.pc = "gemini"
    /\ FailAi(AiAnalysisFailed(GeminiFailure("fetch failed")), req.analysisResult)
    /\ UNCHANGED <<selectedFile, imageUrl, apiKey, options, sent, now, pixelVars>>

Next ==
    \/ \E file \in Files : HandleImageSelect(file)
    \/ \E key \in ApiKeys : SetApiKey(key)
    \/ \E key \in OptionKeys : HandleOptionChange(key)
    \/ \E ctx \in BOOLEAN : HandleProcess(ctx)
    \/ ImgOnload
    \/ ImgOnerror
    \/ ReaderOnload
    \/ ReaderOnerror
    \/ \E text \in ResponseTexts : GeminiResolves(text)
    \/ GeminiRejects

Init == AppInit /\ pixels = <<>> /\ colorPalette = None /\ statistics = None

Spec == Init /\ [][Next]_vars

\* ------------------------------------------------------------ pixel harness

PixelInit ==
    /\ AppInit
    /\ pixels \in Buffers
    /\ colorPalette = None
    /\ statistics = None

CallExtractColorPalette ==
    /\ colorPalette = None
    /\ colorPalette' = Some(extractColorPalette(pixels))
    /\ UNCHANGED <<pixels, statistics, appVars>>

CallCalculateImageStats ==
    /\ statistics = None
    /\ statistics' = Some(calculateImageStats(pixels))
    /\ UNCHANGED <<pixels, colorPalette, appVars>>

PixelNext == CallExtractColorPalette \/ CallCalculateImageStats

PixelSpec == PixelInit /\ [][PixelNext]_vars

\* ================================================================= claims

\* ------------------------------------------------- quantizer and statistics
\* (checked under PixelSpec: every buffer of Buffers, each function applied)

\* the palette extractColorPalette returned
Palette == colorPalette[1].dominantColors
\* the statistics calculateImageStats returned
Stats == statistics[1]

\* C1: for every non-empty sample sequence, extractColorPalette with its
\* default target count NumColors = 8 returns a palette of exactly NumColors
\* entries.
C1_PaletteHasNumColorsEntries ==
    (colorPalette # None /\ sampledColors(pixels) # <<>>) => Len(Palette) = NumColors

\* C7: when no pixel of the buffer has alpha >= AlphaThreshold, none of
\* averageBrightness, averageContrast and the three channel averages that
\* calculateImageStats returns is NaN.
C7_StatsDefinedWithoutEligiblePixels ==
    (statistics # None /\ IncludedFrom(pixels, 0) = <<>>) =>
        /\ ~IsNaN(Stats.averageBrightness)
        /\ ~IsNaN(Stats.averageContrast)
        /\ ~IsNaN(Stats.colorDistribution.red)
        /\ ~IsNaN(Stats.colorDistribution.green)
        /\ ~IsNaN(Stats.colorDistribution.blue)

\* C8: when the sample sequence is empty, no entry of the palette has an rgb
\* channel or a percentage that is NaN (the result of averaging over, or
\* dividing by, zero samples).
C8_NoAverageOverZeroSamples ==
    (colorPalette # None /\ sampledColors(pixels) = <<>>) =>
        \A i \in 1..Len(Palette) :
            /\ ~IsNaN(Palette[i].rgb.r)
            /\ ~IsNaN(Palette[i].rgb.g)
            /\ ~IsNaN(Palette[i].rgb.b)
            /\ ~IsNaN(Palette[i].percentage)

\* C9: for every pixel buffer, the palette extractColorPalette returns is
\* sorted descending by percentage: each entry's percentage is at least the
\* next entry's.
C9_PaletteSortedDescending ==
    colorPalette # None =>
        \A i \in 1..(Len(Palette) - 1) :
            Palette[i].percentage >= Palette[i + 1].percentage

\* C9 witness: a palette was returned whose entries had to be reordered, and
\* which holds two different percentages.
C9_Witness ==
    /\ colorPalette # None
    /\ Palette # PaletteEntries(sampledColors(pixels), NumColors)
    /\ Palette[1].percentage > Palette[Len(Palette)].percentage

\* C10: for every pixel buffer, every entry of the palette has a percentage
\* in [0, 100] (0..10000 hundredths), the count of samples within the distance
\* threshold of its color being at most the total sample count.
C10_PercentageWithinRange ==
    colorPalette # None =>
        \A i \in 1..Len(Palette) :
            /\ ~IsNaN(Palette[i].percentage)
            /\ 0 <= Palette[i].percentage
            /\ Palette[i].percentage <= 10000

\* C11: for every RGBA buffer of P pixels, the sample sequence built by
\* extractColorPalette is exactly the (R, G, B) triples of the pixels with
\* index 0, 10, 20, ... < P whose alpha is at least 128, in buffer order.
C11_SamplerVisitsEveryTenthPixel ==
    colorPalette # None =>
        LET P == Len(pixels) \div 4
            kept == SelectSeq([j \in 1..P |-> j - 1],
                              LAMBDA j : j % 10 = 0 /\ pixels[4 * j + 4] >= 128)
        IN  /\ Len(sampledColors(pixels)) = Len(kept)
            /\ \A n \in 1..Len(kept) :
                  sampledColors(pixels)[n] =
                      <<pixels[4 * kept[n] + 1], pixels[4 * kept[n] + 2],
                        pixels[4 * kept[n] + 3]>>

\* C11 witness: a palette was extracted from a buffer of 21 pixels whose
\* unvisited pixels are opaque, whose pixel 0 has alpha exactly 128 and whose
\* pixel 10 has alpha 127; two pixels were sampled.
C11_Witness ==
    /\ colorPalette # None
    /\ Len(pixels) = 84
    /\ pixels[8] = 255
    /\ pixels[4] = 128 /\ pixels[44] = 127
    /\ Len(sampledColors(pixels)) = 2

\* C12: for every non-empty fully opaque buffer whose pixels all have one
\* color (r, g, b), calculateImageStats returns averageContrast = 0,
\* colorDistribution = (r, g, b) and averageBrightness = 0.299 r + 0.587 g +
\* 0.114 b rounded to two decimals (a half rounded up: 76.25 for 76.245).
C12_UniformColorStatistics ==
    LET uniformOpaque ==
            /\ Len(pixels) >= 4
            /\ \A j \in 0..((Len(pixels) \div 4) - 1) :
                  /\ pixels[4 * j + 4] = 255
                  /\ pixels[4 * j + 1] = pixels[1]
                  /\ pixels[4 * j + 2] = pixels[2]
                  /\ pixels[4 * j + 3] = pixels[3]
    IN
    (statistics # None /\ uniformOpaque) =>
        /\ Stats.averageContrast = 0
        /\ Stats.colorDistribution =
              [red |-> 100 * pixels[1], green |-> 100 * pixels[2],
               blue |-> 100 * pixels[3]]
        /\ Stats.averageBrightness =
              (299 * pixels[1] + 587 * pixels[2] + 114 * pixels[3] + 5) \div 10

\* the samples extractColorPalette hands to medianCut
Samples == sampledColors(pixels)

\* C14: for every sequence of n >= 1 samples and every depth budget d >= 0,
\* medianCut(samples, d) returns exactly 2^d representative colors.
C14_MedianCutReturnsPowerOfTwo ==
    (colorPalette # None /\ Len(Samples) >= 1) =>
        \A d \in 0..NumColors : Len(medianCut(Samples, d)) = Pow2(d)

\* C15: at every level of the recursion on a non-empty sample sequence the
\* leaf buckets partition the samples: every bucket is non-empty, the bucket
\* lengths add up to the number of samples, and every sample occurs in the
\* buckets as often as in the original sequence.
C15_LeafBucketsPartitionSamples ==
    (colorPalette # None /\ Len(Samples) >= 1) =>
        \A d \in 0..NumColors :
            LET buckets == LeafBuckets(Samples, d)
                occurrences(seq, v) ==
                    Cardinality({i \in 1..Len(seq) : seq[i] = v})
            IN  /\ Len(buckets) = Len(medianCut(Samples, d))
                /\ \A k \in 1..Len(buckets) : Len(buckets[k]) >= 1
                /\ SumSeq([k \in 1..Len(buckets) |-> Len(buckets[k])])
                      = Len(Samples)
                /\ \A n \in 1..Len(Samples) :
                      SumSeq([k \in 1..Len(buckets) |->
                                 occurrences(buckets[k], Samples[n])])
                          = occurrences(Samples, Samples[n])

\* C15 witness: a palette was extracted from three samples, two of them
\* equal, that were not in the order of the split axis; the recursion ended
\* in three buckets of one sample each.
C15_Witness ==
    /\ colorPalette # None
    /\ Len(Samples) = 3
    /\ Samples[1] = Samples[3] /\ Samples[1] # Samples[2]
    /\ Samples[1][MaxChannel(Samples)] > Samples[2][MaxChannel(Samples)]
    /\ Len(LeafBuckets(Samples, NumColors)) = 3

\* C16: in each non-terminal step on a bucket of length L >= 2 the split
\* axis is the channel with the largest max - min range, the lowest channel
\* index winning ties; the left half followed by the right half is the
\* bucket sorted ascending on that axis; the left half has floor(L/2)
\* samples, and each of its axis values is <= each of the right half's.
C16_SplitOnWidestChannelAtMidpoint ==
    colorPalette # None =>
        \A d \in 0..NumColors :
            LET buckets == LeafBuckets(Samples, d)
            IN  \A k \in 1..Len(buckets) :
                  LET bucket == buckets[k]
                      L      == Len(bucket)
                      range(ch) ==
                          LET values == {bucket[i][ch] : i \in 1..L}
                          IN  (CHOOSE hi \in values : \A v \in values : v <= hi)
                              - (CHOOSE lo \in values : \A v \in values : lo <= v)
                      axis   == CHOOSE ch \in 1..3 :
                                   /\ \A other \in 1..3 : range(other) <= range(ch)
                                   /\ \A lower \in 1..(ch - 1) :
                                          range(lower) < range(ch)
                      halves == Split(bucket)
                      whole  == halves.left \o halves.right
                  IN  L >= 2 =>
                        /\ halves.maxChannel = axis
                        /\ Len(halves.left) = L \div 2
                        /\ Len(whole) = L
                        /\ \A i \in 1..(L - 1) :
                              whole[i][axis] <= whole[i + 1][axis]
                        /\ \A v \in {bucket[i] : i \in 1..L} :
                              Cardinality({i \in 1..L : whole[i] = v})
                                = Cardinality({i \in 1..L : bucket[i] = v})
                        /\ \A i \in 1..Len(halves.left) :
                              \A j \in 1..Len(halves.right) :
                                 halves.left[i][axis] <= halves.right[j][axis]

\* C16 witness: a palette was extracted from three samples whose three
\* channel ranges are equal (a tie between the axes) and whose first sample
\* does not have the smallest red value, so that the sort moves it.
C16_Witness ==
    /\ colorPalette # None
    /\ Len(Samples) = 3
    /\ ChannelRanges(Samples)[1] = ChannelRanges(Samples)[2]
    /\ ChannelRanges(Samples)[2] = ChannelRanges(Samples)[3]
    /\ ChannelRanges(Samples)[1] > 0
    /\ Samples[1][1] > Samples[2][1]
    /\ Split(Samples).left = <<Samples[2]>>

\* ------------------------------------------------------------ handleProcess
\* (checked under Spec, C6 under FairSpec)

\* the record setResult was last called with
Result == result[1]

\* The core (canvas) output of a request for `file` under the options `o`.
CoreOutput(file, o) == processImageWithCanvas(file, canvasOptions(o))

\* The canvas keys the four core flags of `o` ask for.
RequestedCanvasKeys(o) ==
    (IF o.basicInfo THEN {"metadata"} ELSE {}) \cup
    (IF o.colors THEN {"colors"} ELSE {}) \cup
    (IF o.base64 THEN {"base64"} ELSE {}) \cup
    (IF o.statistics THEN {"statistics"} ELSE {})

\* C2: when the image has been decoded and the AI stage then fails (the file
\* cannot be read for the request, or a capability request fails), the step
\* that handles the failure delivers a result: the record set holds the
\* request's timestamp and its complete core output and no ai key, processing
\* ends, and an 'AI Analysis failed' message is set.
C2_AiFailureStillDelivers ==
    [][(GeminiRejects \/ ReaderOnerror) =>
          /\ result' = Some([timestamp |-> req.analysisResult.timestamp,
                             canvas |-> CoreOutput(req.file, req.options)])
          /\ "ai" \notin DOMAIN result'[1]
          /\ error' # None /\ error'[1][1] = "AI Analysis failed"
          /\ ~isProcessing']_vars

\* C2 witness: a capability request failed after a successful decode, and the
\* core output with a palette is displayed beside the AI failure message.
C2_Witness ==
    /\ result # None /\ error # None
    /\ error[1][1] = "AI Analysis failed"
    /\ sent # <<>>
    /\ "colors" \in DOMAIN Result.canvas
    /\ "ai" \notin DOMAIN Result

\* C3: when the decode step of a request fails (img.onerror, or no canvas
\* context), the request ends without a result record: `result` is left as it
\* was, no capability request has been issued for it, and a 'Processing
\* failed' message is set.
C3_DecodeFailureDeliversNothing ==
    [][(ImgOnerror \/ HandleProcess(FALSE)) =>
          /\ result' = result
          /\ sent' = <<>>
          /\ req'.pc = "idle" /\ ~isProcessing'
          /\ error' # None /\ error'[1][1] = "Processing failed"]_vars

\* C3 witness: a request for a file that does not decode has ended with the
\* 'Processing failed' message although AI options and a key were set.
C3_Witness ==
    /\ error # None /\ error[1][1] = "Processing failed"
    /\ error[1][2] = ": Failed to load image"
    /\ selectedFile = "broken.png"
    /\ apiKey # "" /\ hasAiOptions(options)
    /\ result = None /\ sent = <<>> /\ req.pc = "idle"

\* C4: for every combination of the four core flags, the canvas object of a
\* delivered result has exactly the keys whose flag is true (metadata iff
\* basicInfo, colors iff colors, base64 iff base64, statistics iff
\* statistics); a key whose flag is false is absent.
C4_CanvasKeysFollowFlags ==
    [][(result' # result /\ result' # None) =>
          DOMAIN result'[1].canvas = RequestedCanvasKeys(req.options)]_vars

\* C4 witness: a result delivered with the two flags that are off by default
\* on and the two that are on by default off.
C4_Witness ==
    /\ result # None
    /\ DOMAIN Result.canvas = {"base64", "statistics"}

\* C5: a request whose API key is the empty string issues no capability
\* request and ends exactly as the same request with the four AI flags false
\* would: on a decodable file with the timestamp and the core output as the
\* whole result (no ai key) and no error, on any other file with the decode
\* failure; whatever aiOcr, aiObjects, aiUI and aiDesign are.
C5_AiFlagsInertWithoutKey ==
    [][(req.pc # "idle" /\ req.apiKey = "") =>
          /\ sent' = <<>>
          /\ req'.pc \in {"image", "idle"}
          /\ req'.pc = "idle" =>
                IF Decodable(req.file)
                THEN /\ result' = Some([timestamp |-> req.analysisResult.timestamp,
                                        canvas |-> CoreOutput(req.file, req.options)])
                     /\ error' = None
                ELSE /\ result' = result
                     /\ error' = ProcessingFailed("Failed to load image")]_vars

\* C5 witness: a result without an ai key delivered while all four AI flags
\* were set and the key was empty.
C5_Witness ==
    /\ result # None /\ "ai" \notin DOMAIN Result
    /\ error = None /\ sent = <<>> /\ req.pc = "idle"
    /\ apiKey = ""
    /\ options.aiOcr /\ options.aiObjects /\ options.aiUI /\ options.aiDesign

\* The environment answers: an image that started loading ends in load or
\* error, a file read ends, a capability request is answered or fails.
Fairness ==
    /\ WF_vars(ImgOnload)
    /\ WF_vars(ImgOnerror)
    /\ WF_vars(ReaderOnload \/ ReaderOnerror)
    /\ WF_vars((\E text \in ResponseTexts : GeminiResolves(text)) \/ GeminiRejects)

FairSpec == Init /\ [][Next]_vars /\ Fairness

\* The result of request number t is displayed, its canvas object holding the
\* requested core output, and processing has ended.
Delivered(t) ==
    /\ ~isProcessing
    /\ result # None
    /\ Result.timestamp = t
    /\ DOMAIN Result.canvas = RequestedCanvasKeys(options)

\* C13: when the model's text for a JSON-expecting capability (ocr, objects,
\* uiElements, designAnalysis) is not valid JSON, code fences aside,
\* parseJSONResponse returns the fallback: the capability's entry is the
\* empty array, for designAnalysis the 'N/A' placeholder, and the AI stage
\* does not fail (no error is set, the request goes on or delivers).
C13_NonJsonTextGivesFallback ==
    [][\A text \in ResponseTexts :
         LET c       == Capabilities[req.pending]
             content == SelectSeq(text, LAMBDA piece :
                                          piece \notin {Fence, "json", "\n"})
             ai      == IF req'.pc = "gemini" THEN req'.geminiResult
                        ELSE result'[1].ai
         IN  (GeminiResolves(text) /\ c # "description"
                                   /\ content # <<"value">>) =>
                 /\ error' = None
                 /\ req'.pc = "gemini" \/ (result' # None /\ ~isProcessing')
                 /\ c \in DOMAIN ai
                 /\ ai[c] = IF c = "designAnalysis"
                            THEN [colorHarmony |-> "N/A", typography |-> "N/A",
                                  layout |-> "N/A"]
                            ELSE <<>>]_vars

\* C13 witness: a result was delivered whose design analysis is the 'N/A'
\* placeholder and whose OCR entry is the empty array, with no error.
C13_Witness ==
    /\ result # None /\ error = None /\ ~isProcessing
    /\ "ai" \in DOMAIN Result
    /\ {"ocr", "designAnalysis"} \subseteq DOMAIN Result.ai
    /\ Result.ai["ocr"] = <<>>
    /\ Result.ai["designAnalysis"] =
          [colorHarmony |-> "N/A", typography |-> "N/A", layout |-> "N/A"]

C17_CapabilityRequestsAreSequential ==
    [][/\ LET OrderOf(c) ==
                 CASE c = "ocr" -> 1 [] c = "objects" -> 2
                   [] c = "description" -> 3 [] c = "uiElements" -> 4
                   [] c = "designAnalysis" -> 5
          IN  \A i \in 1..Len(sent') : \A j \in (i + 1)..Len(sent') :
                 OrderOf(sent'[i]) < OrderOf(sent'[j])
       /\ (sent' # sent /\ sent' # <<>>) =>
             /\ sent' = Append(sent, sent'[Len(sent')])
             /\ \/ sent = <<>> /\ req.pc = "reader"
                \/ /\ req.pc = "gemini" /\ sent # <<>>
                   /\ Capabilities[req.pending] = sent[Len(sent)]
                   /\ \E text \in ResponseTexts : GeminiResolves(text)
             /\ req'.pc = "gemini"
             /\ Capabilities[req'.pending] = sent'[Len(sent')]
       /\ GeminiRejects => (sent' = sent /\ req'.pc = "idle")
       /\ (req.pc \notin {"reader", "gemini"} /\ sent' # sent) => sent' = <<>>
      ]_vars

\* C17 witness: with OCR, object detection and UI analysis asked for, the
\* OCR request completed, the objects request failed, and neither the
\* description nor the UI request was sent.
C17_Witness ==
    /\ sent = <<"ocr", "objects">>
    /\ req.pc = "idle"
    /\ options.aiOcr /\ options.aiObjects /\ options.aiUI
    /\ error = AiAnalysisFailed(GeminiFailure("fetch failed"))

\* ---------------------------------------------------------- displayed state

\* C18: across any sequence of image selections and processing requests, a
\* result is never displayed together with a 'Processing failed' error: when
\* a request fails in the canvas stage (no 2d context, or the image does not
\* decode), no result record of an earlier request remains in `result`.
C18_NoResultBesideProcessingFailed ==
    ~(result # None /\ error # None /\ error[1][1] = "Processing failed")

\* C19: whenever a result record set by a request has an `ai` key, that block
\* is complete for the request's options: it has ocr iff aiOcr, objects iff
\* aiObjects, uiElements iff aiUI, designAnalysis iff aiDesign, description
\* iff (aiObjects or aiDesign); and a failed capability request delivers a
\* record with no `ai` key, whatever the earlier requests returned.
C19_AiBlockCompleteOrAbsent ==
    [][(result' # result /\ result' # None) =>
         LET o == req.options
         IN  /\ "ai" \in DOMAIN result'[1] =>
                  DOMAIN result'[1].ai =
                      (IF o.aiOcr THEN {"ocr"} ELSE {}) \cup
                      (IF o.aiObjects THEN {"objects"} ELSE {}) \cup
                      (IF o.aiUI THEN {"uiElements"} ELSE {}) \cup
                      (IF o.aiDesign THEN {"designAnalysis"} ELSE {}) \cup
                      (IF o.aiObjects \/ o.aiDesign THEN {"description"} ELSE {})
             /\ GeminiRejects => "ai" \notin DOMAIN result'[1]
      ]_vars

\* C19 witness: a result is displayed whose ai block holds exactly the
\* description and the design analysis, design analysis being the only AI
\* option set.
C19_Witness ==
    /\ result # None
    /\ "ai" \in DOMAIN Result
    /\ DOMAIN Result.ai = {"description", "designAnalysis"}
    /\ options.aiDesign /\ ~options.aiObjects /\ ~options.aiOcr /\ ~options.aiUI

\* C20: under any interleaving of image selection with a processing request
\* in flight, a request started for one file never sets `result` after
\* another file has been selected: the step that sets a result is a step of
\* a request for the currently selected file.
C20_ResultIsOfSelectedFile ==
    [][(result' # result /\ result' # None) => req.file = selectedFile]_vars

=============================================================================
